---- MODULE Spec2Model ----
(***************************************************************************)
(* A model of databaser: schema introspection (DstDatabase.prepare_tables, *)
(* DBTable.append_column and the classification properties of DBTable),    *)
(* the two key stores (StorageList, StorageDataTable), the parallel        *)
(* helpers of helpers.py, the transfer stage of Transporter, the check of  *)
(* the required settings, truncate_tables and the use of the pool.         *)
(*                                                                         *)
(* Each part has its own specification over the same variables; the        *)
(* variables of the other parts keep their initial value.                  *)
(***************************************************************************)
EXTENDS Integers, Sequences, FiniteSets, TLC

VARIABLES
    \* ---- introspection (db_entities.py) ----
    pending,        \* records fetched by _prepare_chunk_tables, not yet appended
    columns,        \* DBTable.columns: per table, the column names in insertion order
    colAttr,        \* the DBColumn objects' slots, per (table, column name)
    keyColumn,      \* DBTable._key_column (name of the column, or None)
    revert,         \* DBTable.revert_foreign_tables: referent -> (table -> columns)
    isFkCache,      \* lru_cache of DBColumn.is_foreign_key
    isKeyCache,     \* lru_cache of DBColumn.is_key_column
    introFailed,    \* an append_column raised AttributeError
    hpRead,         \* tables whose highest_priority_fk_columns is in the lru_cache
    hpVal,          \* the cached highest_priority_fk_columns lists
    pkRead,         \* tables whose primary_key is in the lru_cache
    pkVal,          \* the cached primary_key columns (name, or None)
    dropped,        \* records _prepare_chunk_tables left out of the append_column calls
    wrong_fk,       \* columns named by the raised 'Wrong foreign key column' messages
    \* ---- key stores (storages.py, db_entities.py) ----
    rows,           \* the rows (group_id, data) of the scratch table storage_data
    lastGroup,      \* _last_group_number of each StorageDataTable class
    stores,         \* the store objects, in construction order
    ghost,          \* per store: the strings put into it since its last delete
    neRet,          \* the latest is_not_empty() call: its store, what it and the
                    \* call before it returned, whether the store was written since
    iter,           \* the iterator of the running "async for chunk in store"
    \* ---- execute_async_function_for_(async_)collection (helpers.py) ----
    coef,           \* ASYNC_SEPARATION_COEFFICIENT
    variant,        \* which of the two helpers runs
    nArgs,          \* the number of elements of args
    task,           \* per element: the state of the task of fun(element)
    taskChunk,      \* per element: the batch its task was created in
    coroutines,     \* the local list coroutines: tasks of the current batch
    nextArg,        \* elements of args consumed so far
    chunkNo,        \* batches created so far
    pcA,            \* where the helper is
    \* ---- Transporter._transfer_collecting_data (transporters.py) ----
    has_primary_key,        \* per table: table.primary_key is not None
    dst_rows,               \* per table: primary keys of the destination rows
    transferred_pks_count,  \* per table: DBTable.transferred_pks_count
    transfer_task,          \* per table: the coroutine _transfer_table_data
    transfer_pc,            \* where Transporter.transfer is
    dst_before,             \* per table: the destination rows before the transfer
    serial_sequence,        \* per table: the primary key has a serial sequence
    max_pk,                 \* per table: DBTable.max_pk
    sequence_task,          \* per table: the task of set_max_sequence
    \* ---- settings.py ----
    environ,                \* os.environ: the required parameters' variables
    settings_state,         \* the import of settings: pending, done or raised
    \* ---- DstDatabase.truncate_tables (db_entities.py, settings.py) ----
    IS_TRUNCATE_TABLES,                 \* settings.IS_TRUNCATE_TABLES
    TABLES_TRUNCATE_INCLUDED,           \* settings.TABLES_TRUNCATE_INCLUDED (tuple)
    TABLES_TRUNCATE_EXCLUDED,           \* settings.TABLES_TRUNCATE_EXCLUDED (tuple)
    TABLES_WITH_GENERIC_FOREIGN_KEY,    \* settings.TABLES_WITH_GENERIC_FOREIGN_KEY (tuple)
    truncate_table_queries,             \* the queries truncate_tables has not executed yet
    truncated,                          \* the tables of the TRUNCATE statements executed
    truncate_pc,                        \* where truncate_tables is
    \* ---- the connection pool (asyncpg Pool used by db_entities.py, transporters.py) ----
    pool_free,      \* connections of the pool that nobody holds
    caller          \* per caller: the operation it runs and where it is

introVars == <<pending, columns, colAttr, keyColumn, revert, isFkCache,
               isKeyCache, introFailed, hpRead, hpVal, pkRead, pkVal, dropped,
               wrong_fk>>

storeVars == <<rows, lastGroup, stores, ghost, neRet, iter>>

asyncVars == <<coef, variant, nArgs, task, taskChunk, coroutines, nextArg,
               chunkNo, pcA>>

transferVars == <<has_primary_key, dst_rows, transferred_pks_count,
                  transfer_task, transfer_pc, dst_before, serial_sequence,
                  max_pk, sequence_task>>

settingsVars == <<environ, settings_state>>

truncateVars == <<IS_TRUNCATE_TABLES, TABLES_TRUNCATE_INCLUDED,
                  TABLES_TRUNCATE_EXCLUDED, TABLES_WITH_GENERIC_FOREIGN_KEY,
                  truncate_table_queries, truncated, truncate_pc>>

poolVars == <<pool_free, caller>>

vars == <<introVars, storeVars, asyncVars, transferVars, settingsVars,
          truncateVars, poolVars>>

\* an operation of one part leaves the other parts alone
IntroOnly ==
    UNCHANGED <<storeVars, asyncVars, transferVars, settingsVars, truncateVars,
                poolVars>>
StoreOnly ==
    UNCHANGED <<introVars, asyncVars, transferVars, settingsVars, truncateVars,
                poolVars>>
AsyncOnly ==
    UNCHANGED <<introVars, storeVars, transferVars, settingsVars, truncateVars,
                poolVars>>
TransferOnly ==
    UNCHANGED <<introVars, asyncVars, settingsVars, truncateVars, poolVars>>
SettingsOnly ==
    UNCHANGED <<introVars, storeVars, asyncVars, transferVars, truncateVars,
                poolVars>>
TruncateOnly ==
    UNCHANGED <<introVars, storeVars, asyncVars, transferVars, settingsVars,
                poolVars>>
PoolOnly ==
    UNCHANGED <<introVars, storeVars, asyncVars, transferVars, settingsVars,
                truncateVars>>

\* ------------------------------------------------------------------------
\* Generic helpers
\* ------------------------------------------------------------------------
None == "None"

Range(s) == {s[i] : i \in 1..Len(s)}

SubsetsUpTo(S, n) == {X \in SUBSET S : Cardinality(X) <= n}

RECURSIVE FilterSeq(_, _)
\* list(filter(pred, seq)) for a predicate given as the set of kept elements
FilterSeq(s, keep) ==
    IF s = <<>> THEN <<>>
    ELSE IF Head(s) \in keep THEN <<Head(s)>> \o FilterSeq(Tail(s), keep)
         ELSE FilterSeq(Tail(s), keep)

\* ------------------------------------------------------------------------
\* Settings and schema universe
\* ------------------------------------------------------------------------
PRIMARY_KEY == "PRIMARY KEY"
FOREIGN_KEY == "FOREIGN KEY"
UNIQUE == "UNIQUE"

\* DstDatabase.table_names: the tables of the model
TableNames == {"key", "a", "b", "c"}
ColNames == {"id", "ref", "ref2", "ent_id"}
ColIds == TableNames \X ColNames

EXCLUDED_TABLES == {"excl"}
KEY_TABLE_NAME == "key"
KEY_COLUMN_NAMES == {"ent_id"}

\* A row of the column/constraint query of _prepare_chunk_tables
Rec(t, c, dt, ctype, ctn) ==
    [table_name |-> t, column_name |-> c, data_type |-> dt,
     ordinal_position |-> CASE c = "id" -> 1 [] c = "ref" -> 2
                            [] c = "ref2" -> 3 [] OTHER -> 4,
     constraint_table_name |-> ctn, constraint_type |-> ctype]

\* Records about table "a" and its neighbours: several constraint records of
\* one column, referents that are excluded ("excl") or unknown ("ghost").
IntroUniverse ==
    { Rec("a", "id", "integer", PRIMARY_KEY, "a"),
      Rec("a", "ref", "integer", PRIMARY_KEY, "a"),
      Rec("a", "ref", "integer", FOREIGN_KEY, "key"),
      Rec("a", "ref", "integer", FOREIGN_KEY, "b"),
      Rec("a", "ref", "integer", UNIQUE, "a"),
      Rec("a", "ref", "integer", FOREIGN_KEY, "excl"),
      Rec("a", "ref", "integer", FOREIGN_KEY, "ghost"),
      Rec("a", "ref2", "ARRAY", None, None),
      Rec("a", "ref2", "integer", FOREIGN_KEY, "excl"),
      Rec("b", "ent_id", "integer", None, None),
      Rec("b", "ref", "integer", FOREIGN_KEY, "a"),
      Rec("b", "ref", "integer", FOREIGN_KEY, "b"),
      Rec("key", "id", "integer", PRIMARY_KEY, "key"),
      Rec("c", "id", "date", PRIMARY_KEY, "c") }

\* Records that build the classification cases of highest_priority_fk_columns
PrioUniverse ==
    { Rec("a", "ref", "integer", FOREIGN_KEY, "b"),
      Rec("a", "ref", "integer", UNIQUE, "a"),
      Rec("a", "ref", "integer", PRIMARY_KEY, "a"),
      Rec("a", "ref2", "integer", FOREIGN_KEY, "c"),
      Rec("a", "ref2", "integer", FOREIGN_KEY, "a"),
      Rec("a", "id", "integer", FOREIGN_KEY, "a"),
      Rec("b", "ref", "integer", FOREIGN_KEY, "c"),
      Rec("b", "ref2", "integer", FOREIGN_KEY, "c"),
      Rec("b", "id", "integer", FOREIGN_KEY, "key"),
      Rec("c", "ref", "integer", FOREIGN_KEY, "excl"),
      Rec("c", "ent_id", "integer", None, None) }

\* Records of primary key columns: date-typed ones, several per table, a
\* column that gets PRIMARY_KEY as its second constraint
PkUniverse ==
    { Rec("a", "id", "date", PRIMARY_KEY, "a"),
      Rec("a", "ref", "integer", PRIMARY_KEY, "a"),
      Rec("a", "ref2", "integer", PRIMARY_KEY, "a"),
      Rec("a", "ent_id", "integer", None, None),
      Rec("b", "id", "date", PRIMARY_KEY, "b"),
      Rec("b", "ref", "integer", FOREIGN_KEY, "a"),
      Rec("b", "ref", "integer", PRIMARY_KEY, "b"),
      Rec("b", "ref2", "integer", FOREIGN_KEY, "excl"),
      Rec("c", "id", "integer", UNIQUE, "c") }

MaxPkRecords == 5
MaxRecords == 4
MaxPrioRecords == 5

\* ------------------------------------------------------------------------
\* DBColumn
\* ------------------------------------------------------------------------
NoColumn ==
    [data_type |-> "", ordinal_position |-> 0, constraint_table |-> None,
     constraint_type |-> <<>>]

\* DBColumn.__init__
NewColumn(data_type, ordinal_position, constraint_table, constraint_type) ==
    [data_type |-> data_type,
     ordinal_position |-> ordinal_position,
     constraint_table |-> constraint_table,
     constraint_type |-> IF constraint_type # None THEN <<constraint_type>> ELSE <<>>]

\* The bodies of the cached properties (what runs on a cache miss)
IsForeignKeyBody(attr) == FOREIGN_KEY \in Range(attr.constraint_type)

IsKeyColumnBody(name, attr) ==
    \/ name \in KEY_COLUMN_NAMES
    \/ attr.constraint_table = KEY_TABLE_NAME

\* functools.lru_cache: "miss", or the value stored at the first call
CacheGet(cache, id, computed) ==
    IF cache[id] = "miss" THEN computed ELSE cache[id] = "yes"

CachePut(cache, id, computed) ==
    IF cache[id] = "miss"
    THEN [cache EXCEPT ![id] = IF computed THEN "yes" ELSE "no"]
    ELSE cache

EmptyCache == [id \in ColIds |-> "miss"]

\* DBColumn.is_foreign_key etc. as read once introspection is over
is_foreign_key(id) == CacheGet(isFkCache, id, IsForeignKeyBody(colAttr[id]))

is_primary_key(id) == PRIMARY_KEY \in Range(colAttr[id].constraint_type)

is_unique(id) ==
    \/ UNIQUE \in Range(colAttr[id].constraint_type)
    \/ (is_foreign_key(id) /\ is_primary_key(id))

is_self_fk(id) == is_foreign_key(id) /\ colAttr[id].constraint_table = id[1]

\* ------------------------------------------------------------------------
\* DBTable.append_column
\* ------------------------------------------------------------------------
\* self.tables.get(constraint_table_name)
TablesGet(name) == IF name \in TableNames THEN name ELSE None

\* the  column.constraint_table.revert_foreign_tables[self].add(column)  line
AddRevertSwapped(rev, referent, table, column) ==
    [rev EXCEPT ![table][referent] = @ \cup {column}]

AddRevert(rev, referent, table, column) ==
    [rev EXCEPT ![referent][table] = @ \cup {column}]

\* [... for record in records
\*      if record['constraint_table_name'] not in EXCLUDED_TABLES]
RecordKeptAlways(rec) == TRUE

RecordKept(rec) == rec.constraint_table_name \notin EXCLUDED_TABLES

\* column.constraint_table.revert_foreign_tables raises AttributeError (the
\* constraint table is None), which append_column turns into its own
\* AttributeError: 'Wrong foreign key column {column}.\n{traceback_}'
RaisesWrongForeignKeyNever(attr) == FALSE

RaisesWrongForeignKey(attr) == attr.constraint_table = None

AppendColumn(rec) ==
    LET t == rec.table_name
        c == rec.column_name
        id == <<t, c>>
        constraint_table == TablesGet(rec.constraint_table_name)
        ctype == rec.constraint_type
        exists == c \in Range(columns[t])
        old == colAttr[id]
        \* first branch: the column is known / is new
        attr ==
            IF exists
            THEN IF ctype # None
                 THEN [old EXCEPT
                         !.constraint_type = Append(@, ctype),
                         !.constraint_table =
                             IF ctype = FOREIGN_KEY THEN constraint_table ELSE @]
                 ELSE old
            ELSE NewColumn(IF rec.data_type = "ARRAY" THEN "integer array"
                                                       ELSE rec.data_type,
                           rec.ordinal_position, constraint_table, ctype)
        fkCache1 ==
            IF exists /\ ctype = FOREIGN_KEY THEN EmptyCache ELSE isFkCache
        \* if not self._key_column and column.is_key_column
        readsKey == keyColumn[t] = None
        isKey == CacheGet(isKeyCache, id, IsKeyColumnBody(c, attr))
        \* if column.is_foreign_key
        isFk == CacheGet(fkCache1, id, IsForeignKeyBody(attr))
    IN
    /\ rec \in pending
    /\ RecordKept(rec)
    /\ pending' = pending \ {rec}
    /\ columns' = IF exists THEN columns
                  ELSE [columns EXCEPT ![t] = Append(@, c)]
    /\ colAttr' = [colAttr EXCEPT ![id] = attr]
    /\ isKeyCache' = IF readsKey
                     THEN CachePut(isKeyCache, id, IsKeyColumnBody(c, attr))
                     ELSE isKeyCache
    /\ keyColumn' = IF readsKey /\ isKey
                    THEN [keyColumn EXCEPT ![t] = c]
                    ELSE keyColumn
    /\ isFkCache' = CachePut(fkCache1, id, IsForeignKeyBody(attr))
    /\ IF isFk
       THEN IF RaisesWrongForeignKey(attr)
            THEN /\ introFailed' = TRUE
                 /\ wrong_fk' = wrong_fk \cup {id}
                 /\ UNCHANGED revert
            ELSE /\ revert' = AddRevert(revert, attr.constraint_table, t, c)
                 /\ UNCHANGED <<introFailed, wrong_fk>>
       ELSE UNCHANGED <<revert, introFailed, wrong_fk>>
    /\ UNCHANGED <<hpRead, hpVal, pkRead, pkVal, dropped>>
    /\ IntroOnly

\* _prepare_chunk_tables: a record whose constraint table is excluded is
\* filtered out of the list of append_column calls
DropExcludedRecord(rec) ==
    /\ rec \in pending
    /\ ~RecordKept(rec)
    /\ pending' = pending \ {rec}
    /\ dropped' = dropped \cup {rec}
    /\ UNCHANGED <<columns, colAttr, keyColumn, revert, isFkCache, isKeyCache,
                   introFailed, hpRead, hpVal, pkRead, pkVal, wrong_fk>>
    /\ IntroOnly

\* prepare_tables has returned (normally, or with the AttributeError)
IntroDone == pending = {}
IntroOk == IntroDone /\ ~introFailed

\* ------------------------------------------------------------------------
\* DBTable classification properties (read once introspection is over)
\* ------------------------------------------------------------------------
ColsWhere(t, names, P(_)) == FilterSeq(names, {c \in Range(names) : P(<<t, c>>)})

with_key_column(t) == keyColumn[t] # None

foreign_keys_columns(t) == ColsWhere(t, columns[t], is_foreign_key)

IsNotSelfFk(id) == is_foreign_key(id) /\ ~is_self_fk(id)

not_self_fk_columns(t) == ColsWhere(t, columns[t], IsNotSelfFk)

IsUniqueFk(id) == is_foreign_key(id) /\ is_unique(id)

unique_fk_columns(t) == ColsWhere(t, not_self_fk_columns(t), IsUniqueFk)

ReferentWithKeyColumn(id) == with_key_column(colAttr[id].constraint_table)

fk_columns_with_key_column(t) ==
    ColsWhere(t, not_self_fk_columns(t), ReferentWithKeyColumn)

\* list(set(unique_fk_columns).intersection(fk_columns_with_key_column)): the
\* order of the resulting list is the set's; no caller depends on it
unique_fk_columns_with_key_column(t) ==
    FilterSeq(unique_fk_columns(t), Range(fk_columns_with_key_column(t)))

RECURSIVE Repeat(_, _)
Repeat(x, n) == IF n = 0 THEN <<>> ELSE <<x>> \o Repeat(x, n - 1)

RECURSIVE TwoHopLoop(_, _)
\* the nested loops of the two "..._tables_with_fk_columns_with_key_column"
\* properties: the column is appended once per FK column of its referent
\* that points to a table with a key column
TwoHopLoop(t, names) ==
    IF names = <<>> THEN <<>>
    ELSE LET column == Head(names)
             ct == colAttr[<<t, column>>].constraint_table
             hits == Len(fk_columns_with_key_column(ct))
         IN  Repeat(column, hits) \o TwoHopLoop(t, Tail(names))

fk_columns_tables_with_fk_columns_with_key_column(t) ==
    TwoHopLoop(t, not_self_fk_columns(t))

unique_fk_columns_tables_with_fk_columns_with_key_column(t) ==
    TwoHopLoop(t, unique_fk_columns(t))

HighestPriorityUnionDropped(t) ==
    IF unique_fk_columns_with_key_column(t) # <<>>
    THEN unique_fk_columns_with_key_column(t)
    ELSE IF \/ unique_fk_columns_tables_with_fk_columns_with_key_column(t) # <<>>
            \/ fk_columns_with_key_column(t) # <<>>
    THEN IF unique_fk_columns_tables_with_fk_columns_with_key_column(t) # <<>>
         THEN unique_fk_columns_tables_with_fk_columns_with_key_column(t)
         ELSE fk_columns_with_key_column(t)
    ELSE IF fk_columns_tables_with_fk_columns_with_key_column(t) # <<>>
    THEN fk_columns_tables_with_fk_columns_with_key_column(t)
    ELSE not_self_fk_columns(t)

highest_priority_fk_columns(t) ==
    IF unique_fk_columns_with_key_column(t) # <<>>
    THEN unique_fk_columns_with_key_column(t)
    ELSE IF \/ unique_fk_columns_tables_with_fk_columns_with_key_column(t) # <<>>
            \/ fk_columns_with_key_column(t) # <<>>
    THEN unique_fk_columns_tables_with_fk_columns_with_key_column(t)
            \o fk_columns_with_key_column(t)
    ELSE IF fk_columns_tables_with_fk_columns_with_key_column(t) # <<>>
    THEN fk_columns_tables_with_fk_columns_with_key_column(t)
    ELSE not_self_fk_columns(t)

\* A caller (the collector) reads table.highest_priority_fk_columns after
\* prepare_structure; lru_cache keeps the first list computed for the table
ReadHighestPriority(t) ==
    /\ IntroOk
    /\ t \notin hpRead
    /\ hpRead' = hpRead \cup {t}
    /\ hpVal' = [hpVal EXCEPT ![t] = highest_priority_fk_columns(t)]
    /\ UNCHANGED <<pending, columns, colAttr, keyColumn, revert, isFkCache,
                   isKeyCache, introFailed, pkRead, pkVal, dropped, wrong_fk>>
    /\ IntroOnly

PrimaryKeyFilterAnyType(attr) == PRIMARY_KEY \in Range(attr.constraint_type)

\* lambda c: ConstraintTypesEnum.PRIMARY_KEY in c.constraint_type
\*           and c.data_type != 'date'
PrimaryKeyFilter(attr) ==
    /\ PRIMARY_KEY \in Range(attr.constraint_type)
    /\ attr.data_type # "date"

\* DBTable.primary_key: primary_keys[0] of the filtered columns.values(),
\* None when the list is empty
primary_key(t) ==
    LET primary_keys ==
            FilterSeq(columns[t],
                      {c \in Range(columns[t]) : PrimaryKeyFilter(colAttr[<<t, c>>])})
    IN  IF primary_keys # <<>> THEN primary_keys[1] ELSE None

\* A caller (transporter, set_max_sequence) reads table.primary_key after
\* prepare_tables; lru_cache keeps the first value computed for the table
ReadPrimaryKey(t) ==
    /\ IntroOk
    /\ t \notin pkRead
    /\ pkRead' = pkRead \cup {t}
    /\ pkVal' = [pkVal EXCEPT ![t] = primary_key(t)]
    /\ UNCHANGED <<pending, columns, colAttr, keyColumn, revert, isFkCache,
                   isKeyCache, introFailed, hpRead, hpVal, dropped, wrong_fk>>
    /\ IntroOnly

FreshTables ==
    /\ columns = [t \in TableNames |-> <<>>]
    /\ colAttr = [id \in ColIds |-> NoColumn]
    /\ keyColumn = [t \in TableNames |-> None]
    /\ revert = [r \in TableNames |-> [t \in TableNames |-> {}]]
    /\ isFkCache = EmptyCache
    /\ isKeyCache = EmptyCache
    /\ introFailed = FALSE
    /\ hpRead = {}
    /\ hpVal = [t \in TableNames |-> <<>>]
    /\ pkRead = {}
    /\ pkVal = [t \in TableNames |-> None]
    /\ dropped = {}
    /\ wrong_fk = {}


\* ------------------------------------------------------------------------
\* Key stores: StorageList and StorageDataTable (storages.py), and the
\* StorageDataTable of db_entities.py that DBTable.need_transfer_pks uses
\* ------------------------------------------------------------------------
LIST == "StorageList"
SDT == "storages.StorageDataTable"
ENT == "db_entities.StorageDataTable"
TableKinds == {SDT, ENT}

\* Identifiers handed to insert(): Union[int, str]
I(n) == <<"int", n>>
S(x) == <<"str", x>>

SmallElems == {I(1), S("1"), S("a")}
Elems == {I(1), I(2), I(10), S("1"), S("a")}

\* str() of an int
IntText(n) == CASE n = 1 -> "1" [] n = 2 -> "2" [] n = 10 -> "10"

\* map(str, data) of StorageList.insert
PyStr(x) == IF x[1] = "int" THEN IntText(x[2]) ELSE x[2]

\* str((group, i)) in the VALUES list, stored in the column data VARCHAR(255):
\* an int literal is cast to its text, a quoted literal is the string
SqlText(x) == IF x[1] = "int" THEN IntText(x[2]) ELSE x[2]

\* ORDER BY data: the position of a string in the text order
Rank(x) == CASE x = "1" -> 1 [] x = "10" -> 2 [] x = "2" -> 3 [] x = "a" -> 4

RECURSIVE OrderBy(_)
OrderBy(D) ==
    IF D = {} THEN <<>>
    ELSE LET m == CHOOSE x \in D : \A y \in D : Rank(x) <= Rank(y)
         IN  <<m>> \o OrderBy(D \ {m})

MaxStores == 2
COLLECTOR_CHUNK_SIZE == 2
CHUNK_SIZE == 2

\* chunk size of a store's __aiter__ / iter_difference
ChunkSizeOf(kind) == IF kind = ENT THEN CHUNK_SIZE ELSE COLLECTOR_CHUNK_SIZE

\* SELECT data FROM storage_data WHERE group_id = '{group}'
GroupData(rws, g) == {r[2] : r \in {q \in rws : q[1] = g}}

\* ALL_DATA_SQL_TEMPLATE
AllDataSql(rws, g) == OrderBy(GroupData(rws, g))

\* DIFFERENCE_DATA_SQL_TEMPLATE
DifferenceDataSql(rws, g1, g2) == OrderBy(GroupData(rws, g1) \ GroupData(rws, g2))

\* "{sql} LIMIT {limit} OFFSET {offset}"
LimitOffset(result, limit, offset) ==
    SubSeq(result, offset + 1,
           IF Len(result) < offset + limit THEN Len(result) ELSE offset + limit)

GetIterPageOffsetStep(result, chunk_size, step) ==
    LimitOffset(result, chunk_size, step)

\* BaseDatabase.get_iter: the page fetched at a given step
GetIterPage(result, chunk_size, step) ==
    LimitOffset(result, chunk_size, chunk_size * step)

RECURSIVE GetIterAll(_, _, _)
\* all the chunks of a get_iter over an unchanging result, concatenated
GetIterAll(result, chunk_size, step) ==
    LET data == GetIterPage(result, chunk_size, step)
    IN  IF data = <<>> THEN <<>>
        ELSE data \o GetIterAll(result, chunk_size, step + 1)

\* INSERT ... VALUES ... ON CONFLICT DO NOTHING under UNIQUE (group_id, data)
InsertDataSql(rws, g, texts) == rws \cup {<<g, x>> : x \in texts}

\* DELETE FROM storage_data WHERE group_id = '{group}'
DeleteDataSql(rws, g) == {r \in rws : r[1] # g}

\* The store objects and the scratch table as one value, so that an
\* operation is a function from the state before to the state after
Now ==
    [stores |-> stores, rows |-> rows, ghost |-> ghost, neRet |-> neRet,
     iter |-> iter]

Becomes(k) ==
    /\ stores' = k.stores
    /\ rows' = k.rows
    /\ ghost' = k.ghost
    /\ neRet' = k.neRet
    /\ iter' = k.iter

\* what the store holds
Content(k, s) ==
    IF k.stores[s].kind = LIST THEN k.stores[s].storage
    ELSE GroupData(k.rows, k.stores[s].group)

StoreIds == 1..Len(stores)

NoIter ==
    [store |-> 0, state |-> "idle", step |-> 0, yielded |-> <<>>,
     remaining |-> {}, size0 |-> 0, dirty |-> FALSE, initial |-> {},
     shrunk |-> FALSE]

NoCall == [store |-> 0, prev |-> "none", result |-> FALSE, fresh |-> FALSE]

\* the stores whose content an operation on store s changes
SameData(k, s, u) ==
    \/ s = u
    \/ /\ k.stores[s].kind # LIST
       /\ k.stores[u].kind # LIST
       /\ k.stores[s].group = k.stores[u].group

\* bookkeeping after store s was written: the iteration begun earlier has
\* seen a modified store, and the last is_not_empty() answer is of the past
Touched(k, s) ==
    [k EXCEPT
       !.iter = IF k.iter.store # 0 /\ SameData(k, s, k.iter.store)
                THEN [k.iter EXCEPT !.dirty = TRUE] ELSE k.iter,
       !.neRet = IF k.neRet.store # 0 /\ SameData(k, s, k.neRet.store)
                 THEN [k.neRet EXCEPT !.fresh = FALSE] ELSE k.neRet]

NewStore(kind, group) ==
    [kind |-> kind, group |-> group, have_value |-> FALSE, storage |-> {}]

\* StorageList.__init__
NewStorageList ==
    /\ Len(stores) < MaxStores
    /\ stores' = Append(stores, NewStore(LIST, 0))
    /\ ghost' = Append(ghost, {})
    /\ UNCHANGED <<rows, lastGroup, neRet, iter>>
    /\ StoreOnly

\* StorageDataTable.__init__ of either class
NewStorageDataTable(cls) ==
    /\ Len(stores) < MaxStores
    /\ lastGroup' = [lastGroup EXCEPT ![cls] = @ + 1]
    /\ stores' = Append(stores, NewStore(cls, lastGroup[cls] + 1))
    /\ ghost' = Append(ghost, {})
    /\ UNCHANGED <<rows, neRet, iter>>
    /\ StoreOnly

\* what a caller expects insert(data) to add: the identifiers as text
TextsOf(data) ==
    {x[2] : x \in {y \in data : y[1] = "str"}}
        \cup {IntText(x[2]) : x \in {y \in data : y[1] = "int"}}

\* insert(data); an empty data returns at once
DoInsert(k, s, data) ==
    IF data = {} THEN k
    ELSE Touched(
           IF k.stores[s].kind = LIST
           THEN [k EXCEPT !.stores[s].storage = @ \cup {PyStr(x) : x \in data},
                          !.ghost[s] = @ \cup TextsOf(data)]
           ELSE [k EXCEPT !.rows = InsertDataSql(@, k.stores[s].group,
                                                 {SqlText(x) : x \in data}),
                          !.ghost[s] = @ \cup TextsOf(data)],
           s)

Insert(s, data) ==
    /\ s \in StoreIds
    /\ Becomes(DoInsert(Now, s, data))
    /\ UNCHANGED lastGroup
    /\ StoreOnly

RECURSIVE AddStorageDataLoop(_, _, _, _, _)
\* StorageDataTable.add_storage_data: async for chunk in storage_data:
\* await self.insert(chunk)
AddStorageDataLoop(rws, src, dst, chunk_size, step) ==
    LET chunk == GetIterPage(AllDataSql(rws, src), chunk_size, step)
    IN  IF chunk = <<>> THEN rws
        ELSE AddStorageDataLoop(InsertDataSql(rws, dst, Range(chunk)),
                                src, dst, chunk_size, step + 1)

\* add_storage_data(storage_data)
DoAddStorageData(k, s, src) ==
    Touched(
      IF k.stores[s].kind = LIST
      THEN [k EXCEPT !.stores[s].storage = @ \cup k.stores[src].storage,
                     !.ghost[s] = @ \cup Content(k, src)]
      ELSE [k EXCEPT !.rows = AddStorageDataLoop(@, k.stores[src].group,
                                 k.stores[s].group,
                                 ChunkSizeOf(k.stores[src].kind), 0),
                     !.ghost[s] = @ \cup Content(k, src)],
      s)

\* both stores are of the same family, as the methods' signatures ask
AddStorageData(s, src) ==
    /\ s \in StoreIds /\ src \in StoreIds
    /\ (stores[s].kind = LIST) <=> (stores[src].kind = LIST)
    /\ Becomes(DoAddStorageData(Now, s, src))
    /\ UNCHANGED lastGroup
    /\ StoreOnly

HaveValueKept(kind, have) == have

\* _have_value after delete(): storages.py resets it, db_entities.py does not
HaveValueAfterDelete(kind, have) == IF kind = SDT THEN FALSE ELSE have

\* bookkeeping after store s was emptied: the iteration begun earlier has
\* seen elements removed
Shrunk(k, s) ==
    [k EXCEPT
       !.iter = IF k.iter.store # 0 /\ SameData(k, s, k.iter.store)
                THEN [k.iter EXCEPT !.shrunk = TRUE] ELSE k.iter]

\* delete()
DoDelete(k, s) ==
    Shrunk(Touched(
      IF k.stores[s].kind = LIST
      THEN [k EXCEPT !.stores[s].storage = {}, !.ghost[s] = {}]
      ELSE [k EXCEPT !.rows = DeleteDataSql(@, k.stores[s].group),
                     !.stores[s].have_value =
                         HaveValueAfterDelete(k.stores[s].kind, @),
                     !.ghost[s] = {}],
      s), s)

Delete(s) ==
    /\ s \in StoreIds
    /\ Becomes(DoDelete(Now, s))
    /\ UNCHANGED lastGroup
    /\ StoreOnly

IsNotEmptyUnqueried(have, exist) == have

\* StorageDataTable.is_not_empty: the value stored in _have_value and returned
IsNotEmptyValue(have, exist) == IF ~have THEN exist ELSE have

\* what is_not_empty() returns
IsNotEmptyOf(k, s) ==
    IF k.stores[s].kind = LIST THEN k.stores[s].storage # {}
    ELSE IsNotEmptyValue(k.stores[s].have_value,
                         GroupData(k.rows, k.stores[s].group) # {})

\* is_not_empty()
DoIsNotEmpty(k, s) ==
    [k EXCEPT
       !.stores[s].have_value =
           IF k.stores[s].kind = LIST THEN @ ELSE IsNotEmptyOf(k, s),
       !.neRet = [store |-> s,
                  prev |-> IF k.neRet.store = s
                           THEN (IF k.neRet.result THEN "true" ELSE "false")
                           ELSE "none",
                  result |-> IsNotEmptyOf(k, s),
                  fresh |-> TRUE]]

IsNotEmpty(s) ==
    /\ s \in StoreIds
    /\ Becomes(DoIsNotEmpty(Now, s))
    /\ UNCHANGED lastGroup
    /\ StoreOnly

\* len()
LenOf(k, s) == Cardinality(Content(k, s))

\* all(), as the set of its elements
AllOf(k, s) ==
    IF k.stores[s].kind = LIST THEN k.stores[s].storage
    ELSE Range(AllDataSql(k.rows, k.stores[s].group))

\* the elements a complete iteration of an unmodified store yields
IterationOf(k, s) ==
    IF k.stores[s].kind = LIST THEN k.stores[s].storage
    ELSE Range(GetIterAll(AllDataSql(k.rows, k.stores[s].group),
                          ChunkSizeOf(k.stores[s].kind), 0))

\* the elements a complete iter_difference(other) yields
IterDifferenceOf(k, s, other) ==
    IF k.stores[s].kind = LIST
    THEN k.stores[s].storage \ k.stores[other].storage
    ELSE Range(GetIterAll(DifferenceDataSql(k.rows, k.stores[s].group,
                                            k.stores[other].group),
                          ChunkSizeOf(k.stores[s].kind), 0))

\* __aiter__(): "async for chunk in store" begins
IterStart(s) ==
    /\ s \in StoreIds
    /\ iter.state # "running"
    /\ iter' = [store |-> s, state |-> "running", step |-> 0, yielded |-> <<>>,
                remaining |-> stores[s].storage,
                size0 |-> Cardinality(stores[s].storage), dirty |-> FALSE,
                initial |-> Content(Now, s), shrunk |-> FALSE]
    /\ UNCHANGED <<rows, lastGroup, stores, ghost, neRet>>
    /\ StoreOnly

\* one step of the scratch-table iterator of get_iter
IterNextTable ==
    /\ iter.state = "running"
    /\ stores[iter.store].kind # LIST
    /\ LET st == stores[iter.store]
           data == GetIterPage(AllDataSql(rows, st.group), ChunkSizeOf(st.kind),
                               iter.step)
       IN  iter' = IF data = <<>>
                   THEN [iter EXCEPT !.state = "done"]
                   ELSE [iter EXCEPT !.yielded = @ \o data, !.step = @ + 1]
    /\ UNCHANGED <<rows, lastGroup, stores, ghost, neRet>>
    /\ StoreOnly

\* one step of StorageList's generator: make_chunks over the live set; the
\* set iterator raises RuntimeError when the set changed size
IterNextList ==
    /\ iter.state = "running"
    /\ stores[iter.store].kind = LIST
    /\ LET st == stores[iter.store]
           left == iter.remaining \cap st.storage
           n == IF Cardinality(left) < COLLECTOR_CHUNK_SIZE
                THEN Cardinality(left) ELSE COLLECTOR_CHUNK_SIZE
       IN  IF Cardinality(st.storage) # iter.size0
           THEN iter' = [iter EXCEPT !.state = "error"]
           ELSE IF left = {}
           THEN iter' = [iter EXCEPT !.state = "done"]
           ELSE \E chunk \in {X \in SUBSET left : Cardinality(X) = n} :
                    iter' = [iter EXCEPT !.yielded = @ \o OrderBy(chunk),
                                         !.remaining = left \ chunk,
                                         !.step = @ + 1]
    /\ UNCHANGED <<rows, lastGroup, stores, ghost, neRet>>
    /\ StoreOnly

\* One StorageList and one storages.StorageDataTable take the same calls
PairIds == {1, 2}
ListOf(p) == 2 * p - 1
TableOf(p) == 2 * p

EquivInsert(p, data) ==
    /\ Becomes(DoInsert(DoInsert(Now, ListOf(p), data), TableOf(p), data))
    /\ UNCHANGED lastGroup
    /\ StoreOnly

EquivAddStorageData(p, q) ==
    /\ Becomes(DoAddStorageData(DoAddStorageData(Now, ListOf(p), ListOf(q)),
                                TableOf(p), TableOf(q)))
    /\ UNCHANGED lastGroup
    /\ StoreOnly

EquivDelete(p) ==
    /\ Becomes(DoDelete(DoDelete(Now, ListOf(p)), TableOf(p)))
    /\ UNCHANGED lastGroup
    /\ StoreOnly

EquivIsNotEmpty(p) ==
    /\ Becomes(DoIsNotEmpty(DoIsNotEmpty(Now, ListOf(p)), TableOf(p)))
    /\ UNCHANGED lastGroup
    /\ StoreOnly

\* ------------------------------------------------------------------------
\* helpers.py: make_chunks, execute_async_function_for_collection,
\* execute_async_function_for_async_collection
\* ------------------------------------------------------------------------
MaxArgs == 4
ArgIds == 1..MaxArgs
Coefficients == {-1, 0, 1, 2, 3}

Running == {i \in ArgIds : task[i] = "running"}
Finished(i) == task[i] \in {"ok", "failed"}

MakeChunkOneMore(consumed, size, n) ==
    IF consumed + size + 1 < n THEN consumed + size + 1 ELSE n

\* make_chunks: the chunk that starts after `consumed` elements holds the
\* next element and islice(iterator, size - 1); the index of its last element
MakeChunkEnd(consumed, size, n) ==
    IF consumed + size < n THEN consumed + size ELSE n

\* execute_async_function_for_collection: the body of "for chunk in chunks"
\* up to the await: the tasks of the whole chunk are created
StartChunk ==
    /\ variant = "collection"
    /\ pcA = "loop"
    /\ IF coef <= 0 THEN chunkNo = 0 ELSE nextArg < nArgs
    /\ LET last == IF coef <= 0 THEN nArgs
                   ELSE MakeChunkEnd(nextArg, coef, nArgs)
           chunk == (nextArg + 1)..last
       IN  /\ task' = [i \in ArgIds |-> IF i \in chunk THEN "running" ELSE task[i]]
           /\ taskChunk' = [i \in ArgIds |->
                              IF i \in chunk THEN chunkNo + 1 ELSE taskChunk[i]]
           /\ coroutines' = chunk
           /\ nextArg' = last
           /\ chunkNo' = chunkNo + 1
           \* if coroutines: await asyncio.wait(coroutines)
           /\ pcA' = IF chunk # {} THEN "wait" ELSE "loop"
    /\ UNCHANGED <<coef, variant, nArgs>>
    /\ AsyncOnly

\* the for loop has no chunk left: the helper returns
CollectionReturn ==
    /\ variant = "collection"
    /\ pcA = "loop"
    /\ IF coef <= 0 THEN chunkNo > 0 ELSE nextArg = nArgs
    /\ pcA' = "returned"
    /\ UNCHANGED <<coef, variant, nArgs, task, taskChunk, coroutines, nextArg,
                   chunkNo>>
    /\ AsyncOnly

\* execute_async_function_for_async_collection: one round of "async for":
\* a task is created and, with the batch full, asyncio.wait is awaited
AsyncTake ==
    /\ variant = "async_collection"
    /\ pcA = "loop"
    /\ nextArg < nArgs
    /\ LET i == nextArg + 1
           batch == coroutines \cup {i}
       IN  /\ task' = [task EXCEPT ![i] = "running"]
           /\ taskChunk' = [taskChunk EXCEPT ![i] = chunkNo + 1]
           /\ coroutines' = batch
           /\ nextArg' = i
           /\ IF 0 < coef /\ coef <= Cardinality(batch)
              THEN pcA' = "wait" /\ chunkNo' = chunkNo + 1
              ELSE pcA' = "loop" /\ chunkNo' = chunkNo
    /\ UNCHANGED <<coef, variant, nArgs>>
    /\ AsyncOnly

\* the async for is exhausted: the rest of the batch is awaited, if any
AsyncEnd ==
    /\ variant = "async_collection"
    /\ pcA = "loop"
    /\ nextArg = nArgs
    /\ pcA' = IF coroutines # {} THEN "lastwait" ELSE "returned"
    /\ UNCHANGED <<coef, variant, nArgs, task, taskChunk, coroutines, nextArg,
                   chunkNo>>
    /\ AsyncOnly

\* the event loop runs a task of fun to its end: it returns or raises
TaskFinish(i, outcome) ==
    /\ task[i] = "running"
    /\ task' = [task EXCEPT ![i] = outcome]
    /\ UNCHANGED <<coef, variant, nArgs, taskChunk, coroutines, nextArg,
                   chunkNo, pcA>>
    /\ AsyncOnly

\* asyncio.wait(coroutines) with the default return_when=ALL_COMPLETED
WaitOver(batch) == \A i \in batch : Finished(i)

\* asyncio.wait returns (done, pending); the tasks' exceptions are not
\* raised, the result is dropped
WaitReturn ==
    /\ pcA \in {"wait", "lastwait"}
    /\ WaitOver(coroutines)
    /\ coroutines' = IF variant = "collection" THEN coroutines ELSE {}
    /\ pcA' = IF pcA = "lastwait" THEN "returned" ELSE "loop"
    /\ UNCHANGED <<coef, variant, nArgs, task, taskChunk, nextArg, chunkNo>>
    /\ AsyncOnly

IdleAsync ==
    /\ coef = -1
    /\ variant = "collection"
    /\ nArgs = 0
    /\ task = [i \in ArgIds |-> "new"]
    /\ taskChunk = [i \in ArgIds |-> 0]
    /\ coroutines = {}
    /\ nextArg = 0
    /\ chunkNo = 0
    /\ pcA = "returned"

\* ------------------------------------------------------------------------
\* transporters.py: Transporter._transfer_collecting_data and the coroutines
\* _transfer_table_data it gathers. Table i keeps its need_transfer_pks in
\* store i, a db_entities.StorageDataTable.
\* ------------------------------------------------------------------------
\* dst_database.tables.values(): a referenced table and a table with a
\* foreign key to it
TransferTables == <<"p", "c">>
TransferIds == 1..Len(TransferTables)

\* <<T, R>>: table T has a foreign key to table R
TransferRefs == {<<2, 1>>}

\* primary keys in need_transfer_pks
TransferPks == {"1", "10", "2"}

\* the exceptions connection.fetch raises: the four that
\* _transfer_chunk_table_data catches, and any other
ShapeErrors == {"UndefinedColumnError", "NotNullViolationError",
                "PostgresSyntaxError", "NumericValueOutOfRangeError"}
FetchErrors == ShapeErrors \cup {"UniqueViolationError"}

NoError == [cause |-> None, class |-> None, table |-> None, sql |-> <<>>]

\* sent: the transfer statements the coroutine has run
NoTask == [pc |-> "none", step |-> 0, chunk |-> <<>>, sent |-> 0,
           error |-> NoError]

\* setval: the setval statements the task has run
NoSequenceTask == [pc |-> "none", setval |-> <<>>]

\* max_val = self.max_pk + 100000
SEQUENCE_SLACK == 100000

NeedImportedStale(k, i) == k.stores[i].have_value

\* "if await table.need_transfer_pks.is_not_empty()"
NeedImported(k, i) == IsNotEmptyOf(k, i)

RECURSIVE SelectLoop(_, _)
\* the is_not_empty() calls of the comprehension need_imported_tables, in
\* the order of tables.values()
SelectLoop(k, i) ==
    IF i > Len(TransferTables) THEN k
    ELSE SelectLoop(DoIsNotEmpty(k, i), i + 1)

\* the rows the transfer statement inserts and returns: the rows of the
\* chunk pulled from the source that the destination does not hold yet
TransferredIds(chunk, present) == FilterSeq(chunk, Range(chunk) \ present)

\* _transfer_collecting_data up to the await of asyncio.gather
SelectTables ==
    /\ transfer_pc = "select"
    /\ LET need_imported_tables == {i \in TransferIds : NeedImported(Now, i)}
       IN  /\ Becomes(SelectLoop(Now, 1))
           /\ transfer_task' =
                 [i \in TransferIds |->
                    IF i \in need_imported_tables
                    THEN [NoTask EXCEPT !.pc = "start"] ELSE NoTask]
           \* if coroutines: await asyncio.gather(*coroutines)
           /\ transfer_pc' = IF need_imported_tables # {} THEN "gather"
                             ELSE "transferred"
    /\ UNCHANGED <<lastGroup, has_primary_key, dst_rows, transferred_pks_count,
                   dst_before, serial_sequence, max_pk, sequence_task>>
    /\ TransferOnly

TableStartUnchecked(i) ==
    /\ transfer_task[i].pc = "start"
    /\ transfer_task' = [transfer_task EXCEPT ![i].pc = "iter"]
    /\ UNCHANGED <<storeVars, has_primary_key, dst_rows, transferred_pks_count,
                   transfer_pc, dst_before, serial_sequence, max_pk,
                   sequence_task>>
    /\ TransferOnly

\* _transfer_table_data: len() for the log, then the primary key test
TableStart(i) ==
    /\ transfer_task[i].pc = "start"
    /\ transfer_task' = [transfer_task EXCEPT
                           ![i].pc = IF has_primary_key[i] THEN "iter"
                                     ELSE "skipped"]
    /\ UNCHANGED <<storeVars, has_primary_key, dst_rows, transferred_pks_count,
                   transfer_pc, dst_before, serial_sequence, max_pk,
                   sequence_task>>
    /\ TransferOnly

\* "async for need_import_ids_chunk in table.need_transfer_pks": one page
TableNextChunk(i) ==
    /\ transfer_task[i].pc = "iter"
    /\ LET data == GetIterPage(AllDataSql(rows, stores[i].group),
                               ChunkSizeOf(stores[i].kind), transfer_task[i].step)
       IN  transfer_task' = [transfer_task EXCEPT ![i] =
               IF data = <<>> THEN [@ EXCEPT !.pc = "done"]
               ELSE [@ EXCEPT !.pc = "chunk", !.step = @ + 1, !.chunk = data]]
    /\ UNCHANGED <<storeVars, has_primary_key, dst_rows, transferred_pks_count,
                   transfer_pc, dst_before, serial_sequence, max_pk,
                   sequence_task>>
    /\ TransferOnly

CountChunks(count, transferred_ids) == count + 1

\* if transferred_ids: table.transferred_pks_count += len(transferred_ids)
CountAfter(count, transferred_ids) == count + Len(transferred_ids)

\* _transfer_chunk_table_data: the statement runs
TransferChunk(i) ==
    /\ transfer_task[i].pc = "chunk"
    /\ LET transferred_ids == TransferredIds(transfer_task[i].chunk, dst_rows[i])
       IN  /\ dst_rows' = [dst_rows EXCEPT ![i] = @ \cup Range(transferred_ids)]
           /\ transferred_pks_count' =
                 [transferred_pks_count EXCEPT
                    ![i] = IF transferred_ids # <<>>
                           THEN CountAfter(@, transferred_ids) ELSE @]
    /\ transfer_task' = [transfer_task EXCEPT ![i].pc = "iter", ![i].chunk = <<>>,
                                              ![i].sent = @ + 1]
    /\ UNCHANGED <<storeVars, has_primary_key, transfer_pc, dst_before,
                   serial_sequence, max_pk, sequence_task>>
    /\ TransferOnly

RaisedUnwrapped(err, table, sql) ==
    [cause |-> err, class |-> err, table |-> None, sql |-> <<>>]

\* the exception that leaves _transfer_chunk_table_data when connection.fetch
\* raised err: the four caught classes are replaced by a PostgresError
\* whose message holds the table name and transfer_sql
Raised(err, table, sql) ==
    IF err \in ShapeErrors
    THEN [cause |-> err, class |-> "PostgresError", table |-> table, sql |-> sql]
    ELSE [cause |-> err, class |-> err, table |-> None, sql |-> <<>>]

\* _transfer_chunk_table_data: connection.fetch raises, and so does the
\* coroutine of the table
TransferChunkFails(i, err) ==
    /\ transfer_task[i].pc = "chunk"
    /\ transfer_task' = [transfer_task EXCEPT
                           ![i].pc = "failed",
                           ![i].sent = @ + 1,
                           ![i].error = Raised(err, TransferTables[i],
                                               transfer_task[i].chunk)]
    /\ UNCHANGED <<storeVars, has_primary_key, dst_rows, transferred_pks_count,
                   transfer_pc, dst_before, serial_sequence, max_pk,
                   sequence_task>>
    /\ TransferOnly

\* asyncio.gather: every coroutine returned
GatherReturns ==
    /\ transfer_pc = "gather"
    /\ \A i \in TransferIds : transfer_task[i].pc \in {"none", "done", "skipped"}
    /\ transfer_pc' = "transferred"
    /\ UNCHANGED <<storeVars, has_primary_key, dst_rows, transferred_pks_count,
                   transfer_task, dst_before, serial_sequence, max_pk,
                   sequence_task>>
    /\ TransferOnly

\* asyncio.gather: the first exception is raised to the awaiting
\* _transfer_collecting_data; the other coroutines are left running
GatherRaises ==
    /\ transfer_pc = "gather"
    /\ \E i \in TransferIds : transfer_task[i].pc = "failed"
    /\ transfer_pc' = "raised"
    /\ UNCHANGED <<storeVars, has_primary_key, dst_rows, transferred_pks_count,
                   transfer_task, dst_before, serial_sequence, max_pk,
                   sequence_task>>
    /\ TransferOnly

\* Transporter.transfer: _transfer_collecting_data returned, and
\* set_max_tables_sequences creates a task per table
UpdateSequences ==
    /\ transfer_pc = "transferred"
    /\ transfer_pc' = "sequences"
    /\ sequence_task' = [i \in TransferIds |-> [NoSequenceTask EXCEPT !.pc = "created"]]
    /\ UNCHANGED <<storeVars, has_primary_key, dst_rows, transferred_pks_count,
                   transfer_task, dst_before, serial_sequence, max_pk>>
    /\ TransferOnly

SetvalPlusOne(max) == max + 1

\* max_val = self.max_pk + 100000
SetvalOf(max) == max + SEQUENCE_SLACK

\* DBTable.set_max_sequence: without primary key the AttributeError is
\* caught; without serial sequence nothing is set
SetMaxSequence(i) ==
    /\ sequence_task[i].pc = "created"
    /\ sequence_task' = [sequence_task EXCEPT ![i] =
          IF ~has_primary_key[i] THEN [@ EXCEPT !.pc = "no primary key"]
          ELSE IF ~serial_sequence[i] THEN [@ EXCEPT !.pc = "no sequence"]
          ELSE [pc |-> "set", setval |-> <<SetvalOf(max_pk[i])>>]]
    /\ UNCHANGED <<storeVars, has_primary_key, dst_rows, transferred_pks_count,
                   transfer_task, transfer_pc, dst_before, serial_sequence, max_pk>>
    /\ TransferOnly

\* set_max_tables_sequences: asyncio.wait(coroutines) returns, and transfer
\* with it
SequencesUpdated ==
    /\ transfer_pc = "sequences"
    /\ \A i \in TransferIds : sequence_task[i].pc # "created"
    /\ transfer_pc' = "done"
    /\ UNCHANGED <<storeVars, has_primary_key, dst_rows, transferred_pks_count,
                   transfer_task, dst_before, serial_sequence, max_pk,
                   sequence_task>>
    /\ TransferOnly

IdleTransfer ==
    /\ dst_before = [i \in TransferIds |-> {}]
    /\ serial_sequence = [i \in TransferIds |-> FALSE]
    /\ max_pk = [i \in TransferIds |-> 0]
    /\ sequence_task = [i \in TransferIds |-> NoSequenceTask]
    /\ has_primary_key = [i \in TransferIds |-> FALSE]
    /\ dst_rows = [i \in TransferIds |-> {}]
    /\ transferred_pks_count = [i \in TransferIds |-> 0]
    /\ transfer_task = [i \in TransferIds |-> NoTask]
    /\ transfer_pc = "idle"

\* ------------------------------------------------------------------------
\* settings.py: the required parameters and their check
\* ------------------------------------------------------------------------
StrParams == {"SRC_DB_HOST", "SRC_DB_PORT", "SRC_DB_NAME", "SRC_DB_USER",
              "SRC_DB_PASSWORD", "DST_DB_HOST", "DST_DB_PORT", "DST_DB_NAME",
              "DST_DB_USER", "DST_DB_PASSWORD", "KEY_TABLE_NAME"}
IterableParams == {"KEY_COLUMN_NAMES", "KEY_COLUMN_VALUES"}
RequiredParams == StrParams \cup IterableParams

\* a variable of the environment: not set, set to blanks, set to a value
Unset == "unset"
Blank == " "

\* str.strip()
Strip(x) == IF x = Blank THEN "" ELSE x

\* get_str_environ_parameter with the default ''
get_str_environ_parameter(env, name) ==
    IF env[name] = Unset THEN "" ELSE Strip(env[name])

\* get_iterable_environ_parameter: blanks removed, split, empty items dropped
get_iterable_environ_parameter(env, name) ==
    IF env[name] \in {Unset, Blank} THEN <<>> ELSE <<env[name]>>

\* the module-level value of a required parameter
SettingOf(env, name) ==
    IF name \in StrParams THEN get_str_environ_parameter(env, name)
    ELSE get_iterable_environ_parameter(env, name)

\* bool(value) of a str or a tuple
Truthy(x) == Len(x) > 0

\* if not any([...]): raise ValueError('You must send all params!')
RequiredCheckRaises(env) ==
    ~ \E name \in RequiredParams : Truthy(SettingOf(env, name))

\* import of databaser.settings
LoadSettings ==
    /\ settings_state = "pending"
    /\ settings_state' = IF RequiredCheckRaises(environ) THEN "ValueError"
                         ELSE "loaded"
    /\ UNCHANGED environ
    /\ SettingsOnly

IdleSettings ==
    /\ environ = [name \in RequiredParams |-> "1"]
    /\ settings_state = "loaded"

\* ------------------------------------------------------------------------
\* DstDatabase.truncate_tables
\* ------------------------------------------------------------------------
\* DstDatabase.table_names when truncate_tables runs: the tables of the model,
\* which leave out the tables of EXCLUDED_TABLES
DstTableNames == <<"p", "c", "g">>

\* the names the three tuples of the settings are written with: tables of
\* the model and a table of the destination that is not in the model
TruncateNames == {"p", "g", "excl"}

MaxTuple == 2

TuplesUpTo(names, n) == UNION {[1..k -> names] : k \in 0..n}

DefaultTruncateAll(table_names, generic) == table_names

\* tuple(filter(lambda table_name: table_name not in
\*              TABLES_WITH_GENERIC_FOREIGN_KEY, self.table_names))
DefaultTruncate(table_names, generic) ==
    FilterSeq(table_names, Range(table_names) \ Range(generic))

\* if TABLES_TRUNCATE_INCLUDED: ... else: ...
TruncateCandidates ==
    IF TABLES_TRUNCATE_INCLUDED # <<>>
    THEN TABLES_TRUNCATE_INCLUDED
    ELSE DefaultTruncate(DstTableNames, TABLES_WITH_GENERIC_FOREIGN_KEY)

\* if TABLES_TRUNCATE_EXCLUDED: table_names = tuple(filter(...))
TruncateTableNames ==
    IF TABLES_TRUNCATE_EXCLUDED # <<>>
    THEN FilterSeq(TruncateCandidates,
                   Range(TruncateCandidates) \ Range(TABLES_TRUNCATE_EXCLUDED))
    ELSE TruncateCandidates

\* SQLRepository.get_truncate_table_queries: one TRUNCATE statement for
\* each table name, in the order given
get_truncate_table_queries(table_names) ==
    [k \in 1..Len(table_names) |-> [sql |-> "TRUNCATE", table |-> table_names[k]]]

\* truncate_tables up to its first await
TruncateTables ==
    /\ truncate_pc = "start"
    /\ IF IS_TRUNCATE_TABLES
       THEN /\ truncate_table_queries' =
                    get_truncate_table_queries(TruncateTableNames)
            /\ truncate_pc' = "queries"
       ELSE /\ truncate_pc' = "done"
            /\ UNCHANGED truncate_table_queries
    /\ UNCHANGED <<IS_TRUNCATE_TABLES, TABLES_TRUNCATE_INCLUDED,
                   TABLES_TRUNCATE_EXCLUDED, TABLES_WITH_GENERIC_FOREIGN_KEY,
                   truncated>>
    /\ TruncateOnly

\* for query in truncate_table_queries: await self.execute_raw_sql(query)
ExecuteTruncateQuery ==
    /\ truncate_pc = "queries"
    /\ truncate_table_queries # <<>>
    /\ truncated' = Append(truncated, Head(truncate_table_queries).table)
    /\ truncate_table_queries' = Tail(truncate_table_queries)
    /\ UNCHANGED <<IS_TRUNCATE_TABLES, TABLES_TRUNCATE_INCLUDED,
                   TABLES_TRUNCATE_EXCLUDED, TABLES_WITH_GENERIC_FOREIGN_KEY,
                   truncate_pc>>
    /\ TruncateOnly

\* the loop is over: truncate_tables returns
TruncateReturn ==
    /\ truncate_pc = "queries"
    /\ truncate_table_queries = <<>>
    /\ truncate_pc' = "done"
    /\ UNCHANGED <<IS_TRUNCATE_TABLES, TABLES_TRUNCATE_INCLUDED,
                   TABLES_TRUNCATE_EXCLUDED, TABLES_WITH_GENERIC_FOREIGN_KEY,
                   truncate_table_queries, truncated>>
    /\ TruncateOnly

IdleTruncate ==
    /\ IS_TRUNCATE_TABLES = FALSE
    /\ TABLES_TRUNCATE_INCLUDED = <<>>
    /\ TABLES_TRUNCATE_EXCLUDED = <<>>
    /\ TABLES_WITH_GENERIC_FOREIGN_KEY = <<>>
    /\ truncate_table_queries = <<>>
    /\ truncated = <<>>
    /\ truncate_pc = "done"

IdleStores ==
    /\ rows = {}
    /\ lastGroup = [cls \in TableKinds |-> 0]
    /\ stores = <<>>
    /\ ghost = <<>>
    /\ neRet = NoCall
    /\ iter = NoIter

IdleIntro ==
    /\ pending = {}
    /\ FreshTables

\* ------------------------------------------------------------------------
\* The connection pool: the  async with pool.acquire() as connection  blocks
\* ------------------------------------------------------------------------
PoolSize == 1
MaxCallers == 2
CallerIds == 1..MaxCallers

\* the operations that acquire a connection
OneStatementOps == {"execute_raw_sql", "fetch_raw_sql", "_prepare_chunk_tables",
                    "_transfer_chunk_table_data"}
PoolOps == OneStatementOps \cup {"set_max_sequence"}

\* the statements the body of the  async with  runs when none of them raises:
\* execute_raw_sql, fetch_raw_sql, _prepare_chunk_tables and
\* _transfer_chunk_table_data await one connection call; set_max_sequence
\* returns before any statement on the AttributeError of a missing primary
\* key, runs fetchrow, and runs execute when a serial sequence was found
StatementsOf(c) ==
    IF c.op # "set_max_sequence" THEN 1
    ELSE IF ~c.has_primary_key THEN 0
    ELSE IF ~c.serial_sequence THEN 1
    ELSE 2

PoolReleaseLeaks(free) == free

\* __aexit__ of pool.acquire(): the connection goes back to the pool
PoolRelease(free) == free + 1

\* async with pool.acquire() as connection: waits for a free connection
Acquire(i) ==
    /\ caller[i].pc = "start"
    /\ pool_free > 0
    /\ pool_free' = pool_free - 1
    /\ caller' = [caller EXCEPT ![i].pc = "held"]
    /\ PoolOnly

\* an awaited connection.fetch / fetchrow / execute returns
Statement(i) ==
    /\ caller[i].pc = "held"
    /\ ~caller[i].failed
    /\ caller[i].statements < StatementsOf(caller[i])
    /\ caller' = [caller EXCEPT ![i].statements = @ + 1]
    /\ UNCHANGED pool_free
    /\ PoolOnly

\* an awaited connection.fetch / fetchrow / execute raises
StatementFails(i) ==
    /\ caller[i].pc = "held"
    /\ ~caller[i].failed
    /\ caller[i].statements < StatementsOf(caller[i])
    /\ caller' = [caller EXCEPT ![i].statements = @ + 1, ![i].failed = TRUE]
    /\ UNCHANGED pool_free
    /\ PoolOnly

\* the body of the  async with  is left, by its end, a return or an exception
Release(i) ==
    /\ caller[i].pc = "held"
    /\ caller[i].failed \/ caller[i].statements = StatementsOf(caller[i])
    /\ pool_free' = PoolRelease(pool_free)
    /\ caller' = [caller EXCEPT ![i].pc = IF caller[i].failed THEN "raised"
                                          ELSE "returned"]
    /\ PoolOnly

NoCaller ==
    [op |-> "execute_raw_sql", has_primary_key |-> FALSE,
     serial_sequence |-> FALSE, pc |-> "returned", statements |-> 1,
     failed |-> FALSE]

IdlePool ==
    /\ pool_free = PoolSize
    /\ caller = [i \in CallerIds |-> NoCaller]

\* ========================================================================
\* Specifications
\* ========================================================================
\* Introspection of a schema, then reads of highest_priority_fk_columns
InitIntro ==
    /\ IdleSettings
    /\ IdleTruncate
    /\ IdlePool
    /\ IdleTransfer
    /\ IdleAsync
    /\ pending \in SubsetsUpTo(IntroUniverse, MaxRecords)
    /\ FreshTables
    /\ IdleStores

NextIntro ==
    \/ \E rec \in pending : AppendColumn(rec)
    \/ \E rec \in pending : DropExcludedRecord(rec)
    \/ \E t \in TableNames : ReadHighestPriority(t)

SpecIntro == InitIntro /\ [][NextIntro]_vars

\* The same operations on the schemas that exercise the FK classification
InitPrio ==
    /\ IdleSettings
    /\ IdleTruncate
    /\ IdlePool
    /\ IdleTransfer
    /\ IdleAsync
    /\ pending \in SubsetsUpTo(PrioUniverse, MaxPrioRecords)
    /\ FreshTables
    /\ IdleStores

SpecPrio == InitPrio /\ [][NextIntro]_vars

\* Introspection of schemas with primary keys, then reads of primary_key
InitPk ==
    /\ IdleSettings
    /\ IdleTruncate
    /\ IdlePool
    /\ IdleTransfer
    /\ IdleAsync
    /\ pending \in SubsetsUpTo(PkUniverse, MaxPkRecords)
    /\ FreshTables
    /\ IdleStores

NextPk ==
    \/ \E rec \in pending : AppendColumn(rec)
    \/ \E rec \in pending : DropExcludedRecord(rec)
    \/ \E t \in TableNames : ReadPrimaryKey(t)

SpecPk == InitPk /\ [][NextPk]_vars

\* Store objects of the three classes are constructed and used independently
InitStore ==
    /\ IdleSettings
    /\ IdleTruncate
    /\ IdlePool
    /\ IdleTransfer
    /\ IdleAsync
    /\ IdleIntro
    /\ IdleStores

NextStore ==
    \/ NewStorageList
    \/ \E cls \in TableKinds : NewStorageDataTable(cls)
    \/ \E s \in StoreIds : \E data \in SUBSET SmallElems : Insert(s, data)
    \/ \E s, src \in StoreIds : AddStorageData(s, src)
    \/ \E s \in StoreIds : Delete(s)
    \/ \E s \in StoreIds : IsNotEmpty(s)

SpecStore == InitStore /\ [][NextStore]_vars

\* One store of any class, written and iterated; the event loop keeps
\* running the consumer of the iteration
InitIter ==
    /\ IdleSettings
    /\ IdleTruncate
    /\ IdlePool
    /\ IdleTransfer
    /\ IdleAsync
    /\ IdleIntro
    /\ rows = {}
    /\ \E kind \in {LIST, SDT, ENT} :
          /\ stores = <<NewStore(kind, IF kind = LIST THEN 0 ELSE 1)>>
          /\ lastGroup = [cls \in TableKinds |-> IF cls = kind THEN 1 ELSE 0]
    /\ ghost = <<{}>>
    /\ neRet = NoCall
    /\ iter = NoIter

NextIter ==
    \/ \E s \in StoreIds : \E data \in SubsetsUpTo(Elems, 2) : Insert(s, data)
    \/ \E s \in StoreIds : Delete(s)
    \/ \E s \in StoreIds : IterStart(s)
    \/ IterNextTable
    \/ IterNextList

SpecIter ==
    /\ InitIter
    /\ [][NextIter]_vars
    /\ WF_vars(IterNextTable)
    /\ WF_vars(IterNextList)

\* Two pairs (StorageList, storages.StorageDataTable) constructed in turn;
\* every call is made on both stores of a pair
InitEquiv ==
    /\ IdleSettings
    /\ IdleTruncate
    /\ IdlePool
    /\ IdleTransfer
    /\ IdleAsync
    /\ IdleIntro
    /\ rows = {}
    /\ stores = <<NewStore(LIST, 0), NewStore(SDT, 1),
                  NewStore(LIST, 0), NewStore(SDT, 2)>>
    /\ lastGroup = [cls \in TableKinds |-> IF cls = SDT THEN 2 ELSE 0]
    /\ ghost = <<{}, {}, {}, {}>>
    /\ neRet = NoCall
    /\ iter = NoIter

NextEquiv ==
    \/ \E p \in PairIds : \E data \in SubsetsUpTo(Elems, 2) : EquivInsert(p, data)
    \/ \E p, q \in PairIds : EquivAddStorageData(p, q)
    \/ \E p \in PairIds : EquivDelete(p)
    \/ \E p \in PairIds : EquivIsNotEmpty(p)

SpecEquiv == InitEquiv /\ [][NextEquiv]_vars

\* One call of a helper, for any coefficient and any number of elements
InitAsync ==
    /\ IdleSettings
    /\ IdleTruncate
    /\ IdlePool
    /\ IdleTransfer
    /\ IdleIntro
    /\ IdleStores
    /\ coef \in Coefficients
    /\ variant \in {"collection", "async_collection"}
    /\ nArgs \in 0..MaxArgs
    /\ task = [i \in ArgIds |-> "new"]
    /\ taskChunk = [i \in ArgIds |-> 0]
    /\ coroutines = {}
    /\ nextArg = 0
    /\ chunkNo = 0
    /\ pcA = "loop"

NextAsync ==
    \/ StartChunk
    \/ CollectionReturn
    \/ AsyncTake
    \/ AsyncEnd
    \/ \E i \in ArgIds : \E outcome \in {"ok", "failed"} : TaskFinish(i, outcome)
    \/ WaitReturn

SpecAsync ==
    /\ InitAsync
    /\ [][NextAsync]_vars

\* Transporter.transfer after a collection that filled need_transfer_pks of
\* the two tables; a destination table may hold a row already
InitTransfer ==
    /\ IdleSettings
    /\ IdleTruncate
    /\ IdlePool
    /\ IdleIntro
    /\ IdleAsync
    /\ \E need \in [TransferIds -> SUBSET TransferPks] :
          /\ rows = {<<i, x>> : i \in TransferIds, x \in TransferPks}
                       \cap {r \in TransferIds \X TransferPks : r[2] \in need[r[1]]}
          /\ ghost = [i \in TransferIds |-> need[i]]
    /\ \E have \in [TransferIds -> BOOLEAN] :
          stores = [i \in TransferIds |->
                      [NewStore(ENT, i) EXCEPT !.have_value = have[i]]]
    /\ lastGroup = [cls \in TableKinds |->
                      IF cls = ENT THEN Len(TransferTables) ELSE 0]
    /\ neRet = NoCall
    /\ iter = NoIter
    /\ has_primary_key \in [TransferIds -> BOOLEAN]
    /\ serial_sequence \in [TransferIds -> BOOLEAN]
    /\ \A i \in TransferIds : serial_sequence[i] => has_primary_key[i]
    /\ max_pk \in [TransferIds -> {0, 5}]
    /\ \A i \in TransferIds : max_pk[i] # 0 => serial_sequence[i]
    /\ dst_before \in [TransferIds -> {{}, {"1"}}]
    /\ dst_rows = dst_before
    /\ sequence_task = [i \in TransferIds |-> NoSequenceTask]
    /\ transferred_pks_count = [i \in TransferIds |-> 0]
    /\ transfer_task = [i \in TransferIds |-> NoTask]
    /\ transfer_pc = "select"

NextTransfer ==
    \/ SelectTables
    \/ \E i \in TransferIds : TableStart(i)
    \/ \E i \in TransferIds : TableNextChunk(i)
    \/ \E i \in TransferIds : TransferChunk(i)
    \/ \E i \in TransferIds : \E err \in FetchErrors : TransferChunkFails(i, err)
    \/ GatherReturns
    \/ GatherRaises
    \/ UpdateSequences
    \/ \E i \in TransferIds : SetMaxSequence(i)
    \/ SequencesUpdated

SpecTransfer == InitTransfer /\ [][NextTransfer]_vars

\* The settings module is imported under any environment in which at most
\* one variable is blank
InitSettings ==
    /\ IdleTruncate
    /\ IdlePool
    /\ IdleIntro
    /\ IdleStores
    /\ IdleAsync
    /\ IdleTransfer
    /\ \E present \in SUBSET RequiredParams :
       \E blank \in SUBSET present :
          /\ Cardinality(blank) <= 1
          /\ environ = [name \in RequiredParams |->
                          IF name \in blank THEN Blank
                          ELSE IF name \in present THEN "1" ELSE Unset]
    /\ settings_state = "pending"

NextSettings ==
    \/ LoadSettings

SpecSettings == InitSettings /\ [][NextSettings]_vars

\* truncate_tables under every combination of the truncation settings
InitTruncate ==
    /\ IdleSettings
    /\ IdlePool
    /\ IdleIntro
    /\ IdleStores
    /\ IdleAsync
    /\ IdleTransfer
    /\ IS_TRUNCATE_TABLES \in BOOLEAN
    /\ TABLES_TRUNCATE_INCLUDED \in TuplesUpTo(TruncateNames, MaxTuple)
    /\ TABLES_TRUNCATE_EXCLUDED \in TuplesUpTo(TruncateNames, MaxTuple)
    /\ TABLES_WITH_GENERIC_FOREIGN_KEY \in TuplesUpTo({"g"}, 1)
    /\ truncate_table_queries = <<>>
    /\ truncated = <<>>
    /\ truncate_pc = "start"

NextTruncate ==
    \/ TruncateTables
    \/ ExecuteTruncateQuery
    \/ TruncateReturn

SpecTruncate == InitTruncate /\ [][NextTruncate]_vars

\* Concurrent operations on one pool
InitPool ==
    /\ IdleSettings
    /\ IdleTruncate
    /\ IdleIntro
    /\ IdleStores
    /\ IdleAsync
    /\ IdleTransfer
    /\ pool_free = PoolSize
    /\ caller \in [CallerIds ->
          {c \in [op : PoolOps, has_primary_key : BOOLEAN,
                  serial_sequence : BOOLEAN, pc : {"start"}, statements : {0},
                  failed : {FALSE}] :
              /\ c.serial_sequence => c.has_primary_key
              /\ c.op # "set_max_sequence" => ~c.has_primary_key}]

NextPool ==
    \/ \E i \in CallerIds : Acquire(i)
    \/ \E i \in CallerIds : Statement(i)
    \/ \E i \in CallerIds : StatementFails(i)
    \/ \E i \in CallerIds : Release(i)

SpecPool == InitPool /\ [][NextPool]_vars

\* ========================================================================
\* Claims
\* ========================================================================
Present(t) == Range(columns[t])

\* C1: after an introspection that completed without error, every column
\* with is_foreign_key has a referent table, and that table's
\* revert_foreign_tables[T] contains the column.
C1_FkHasRevertEntry ==
    IntroOk =>
        \A t \in TableNames : \A c \in Present(t) :
            is_foreign_key(<<t, c>>) =>
                /\ colAttr[<<t, c>>].constraint_table # None
                /\ c \in revert[colAttr[<<t, c>>].constraint_table][t]

\* C1 witness: introspection is over without error and a column that first
\* got another constraint record and then its FOREIGN KEY record points to
\* another table.
C1_Witness ==
    /\ IntroOk
    /\ \E t \in TableNames : \E c \in Present(t) :
          LET a == colAttr[<<t, c>>] IN
          /\ Len(a.constraint_type) >= 2
          /\ a.constraint_type[1] # FOREIGN_KEY
          /\ FOREIGN_KEY \in Range(a.constraint_type)
          /\ a.constraint_table \notin {None, t}

\* The columns the claim C2 calls key columns: named in KEY_COLUMN_NAMES, or
\* with the key table as final constraint_table
HasKeyColumnFinal(t) ==
    \E c \in Present(t) :
        \/ c \in KEY_COLUMN_NAMES
        \/ colAttr[<<t, c>>].constraint_table = KEY_TABLE_NAME

\* C2: after introspection with_key_column is true exactly when the table
\* has a column named in KEY_COLUMN_NAMES or whose final referent is the
\* key table, in whatever order the constraint records were appended.
C2_WithKeyColumnIffKeyColumn ==
    IntroOk => \A t \in TableNames : with_key_column(t) <=> HasKeyColumnFinal(t)

\* The candidate sets of claim C3, from the columns' final slots
FkSet(t) ==
    {c \in Present(t) : FOREIGN_KEY \in Range(colAttr[<<t, c>>].constraint_type)}

Referent(t, c) == colAttr[<<t, c>>].constraint_table

NonSelfFkSet(t) == {c \in FkSet(t) : Referent(t, c) # t}

UniqueSet(t) ==
    {c \in Present(t) :
        \/ UNIQUE \in Range(colAttr[<<t, c>>].constraint_type)
        \/ /\ FOREIGN_KEY \in Range(colAttr[<<t, c>>].constraint_type)
           /\ PRIMARY_KEY \in Range(colAttr[<<t, c>>].constraint_type)}

DirectSet(t) == {c \in NonSelfFkSet(t) : with_key_column(Referent(t, c))}

TwoHopSet(t) ==
    {c \in NonSelfFkSet(t) :
        \E d \in FkSet(Referent(t, c)) :
            with_key_column(Referent(Referent(t, c), d))}

Candidate1(t) == UniqueSet(t) \cap DirectSet(t)
Candidate2(t) == (UniqueSet(t) \cap TwoHopSet(t)) \cup DirectSet(t)
Candidate3(t) == TwoHopSet(t)
Candidate4(t) == NonSelfFkSet(t)

FirstNonEmptyCandidate(t) ==
    IF Candidate1(t) # {} THEN Candidate1(t)
    ELSE IF Candidate2(t) # {} THEN Candidate2(t)
    ELSE IF Candidate3(t) # {} THEN Candidate3(t)
    ELSE Candidate4(t)

\* C3: the columns of highest_priority_fk_columns are the first non-empty
\* of the four candidate sets, and the list is empty only for a table with
\* no non-self FK column.
C3_HighestPriorityIsFirstNonEmpty ==
    \A t \in hpRead :
        /\ Range(hpVal[t]) = FirstNonEmptyCandidate(t)
        /\ (hpVal[t] = <<>> => NonSelfFkSet(t) = {})

\* C3 witness: a table whose list was read, with no unique direct column,
\* and both a unique two-hop column and a direct column (second candidate).
C3_Witness ==
    \E t \in hpRead :
        /\ Candidate1(t) = {}
        /\ UniqueSet(t) \cap TwoHopSet(t) # {}
        /\ DirectSet(t) # {}
        /\ ~(DirectSet(t) \subseteq UniqueSet(t) \cap TwoHopSet(t))
        /\ Range(hpVal[t]) = Candidate2(t)

NoDuplicates(seq) ==
    \A i, j \in 1..Len(seq) : i # j => seq[i] # seq[j]

C5_Safety ==
    /\ \A s \in StoreIds : LenOf(Now, s) = Cardinality(ghost[s])
    /\ (iter.store # 0 /\ ~iter.dirty) =>
          /\ iter.state # "error"
          /\ NoDuplicates(iter.yielded)
          /\ Range(iter.yielded) \subseteq ghost[iter.store]
          /\ iter.state = "done" => Range(iter.yielded) = ghost[iter.store]

\* C5: for a store not modified since its iteration began, the chunks
\* yielded contain no element twice and, once the iteration is over, every
\* stored element; len() is the number of distinct strings inserted; and a
\* running iteration comes to an end.
C5_IterationYieldsEachOnce ==
    /\ []C5_Safety
    /\ (iter.state = "running") ~> (iter.state # "running")

\* C5 witness: an iteration of an unmodified scratch-table store is over
\* after more than one chunk, and the store holds an int and a str element.
C5_Witness ==
    /\ iter.state = "done"
    /\ ~iter.dirty
    /\ stores[iter.store].kind # LIST
    /\ iter.step >= 2
    /\ {"1", "a"} \subseteq Range(iter.yielded)

IsTableStore(s) == stores[s].kind \in TableKinds

\* C6: every scratch-table store gets a group id greater than that of
\* every store constructed before it, so no two stores share a group and
\* a store shows only what was put into it.
C6_GroupIdsStrictlyIncrease ==
    /\ \A i, j \in StoreIds :
          (i < j /\ IsTableStore(i) /\ IsTableStore(j)) =>
              stores[i].group < stores[j].group
    /\ \A s \in StoreIds : IsTableStore(s) => AllOf(Now, s) \subseteq ghost[s]

\* C7: after the same calls on a StorageList and a StorageDataTable,
\* len(), is_not_empty(), all(), the iteration and iter_difference against
\* the other pair's store give the same results.
C7_VariantsInterchangeable ==
    \A p \in PairIds :
        /\ LenOf(Now, ListOf(p)) = LenOf(Now, TableOf(p))
        /\ IsNotEmptyOf(Now, ListOf(p)) = IsNotEmptyOf(Now, TableOf(p))
        /\ AllOf(Now, ListOf(p)) = AllOf(Now, TableOf(p))
        /\ IterationOf(Now, ListOf(p)) = IterationOf(Now, TableOf(p))
        /\ \A q \in PairIds :
              IterDifferenceOf(Now, ListOf(p), ListOf(q))
                  = IterDifferenceOf(Now, TableOf(p), TableOf(q))

\* C7 witness: pair 1 was asked is_not_empty() while non-empty, holds more
\* than one chunk, and its difference against pair 2 is neither empty nor
\* everything; pair 2 holds elements and was not asked.
C7_Witness ==
    /\ stores[TableOf(1)].have_value
    /\ LenOf(Now, TableOf(1)) > COLLECTOR_CHUNK_SIZE
    /\ ~stores[TableOf(2)].have_value
    /\ IterDifferenceOf(Now, TableOf(1), TableOf(2)) # {}
    /\ IterDifferenceOf(Now, TableOf(1), TableOf(2)) # Content(Now, TableOf(1))

\* C8: an is_not_empty() call on a store that holds an element returns
\* true, also when the call before it on that store returned false.
C8_NoNegativeCaching ==
    (neRet.store # 0 /\ neRet.fresh /\ Content(Now, neRet.store) # {})
        => neRet.result

\* C8 witness: is_not_empty() of a scratch-table store returned false, then
\* the store was written, and the next call returned true.
C8_Witness ==
    /\ neRet.store # 0
    /\ neRet.fresh
    /\ IsTableStore(neRet.store)
    /\ neRet.prev = "false"
    /\ neRet.result
    /\ ghost[neRet.store] # {}

\* C9: with a coefficient k > 0 never more than k tasks started by a helper
\* are unfinished; with k <= 0 nothing is awaited before every element has
\* its task, so all of them run in one batch.
C9_ParallelismBounded ==
    /\ coef > 0 => Cardinality(Running) <= coef
    /\ (coef <= 0 /\ pcA \in {"wait", "lastwait"}) =>
          /\ \A i \in 1..nArgs : task[i] # "new"
          /\ coroutines = 1..nArgs

\* C9 witness: with 1 < k < len(args), k tasks are unfinished while tasks
\* of an earlier batch are over.
C9_Witness ==
    /\ coef > 1
    /\ coef < nArgs
    /\ Cardinality(Running) = coef
    /\ \E i \in ArgIds : Finished(i)

\* C10: once fun has failed for an element, no task of a later batch is
\* started, and execute_async_function_for_collection does not return
\* normally.
C10_FirstErrorAborts ==
    variant = "collection" =>
        /\ \A i, j \in ArgIds :
              (task[i] = "failed" /\ taskChunk[j] > taskChunk[i]) => task[j] = "new"
        /\ pcA = "returned" => \A i \in ArgIds : task[i] # "failed"

\* C4 as stated: no chunk of a table T is in the destination before all the
\* rows of need_transfer_pks of the tables T references are.
C4_ReferentsInsertedFirst ==
    \A ref \in TransferRefs :
        dst_rows[ref[1]] # dst_before[ref[1]]
            => Content(Now, ref[2]) \subseteq dst_rows[ref[2]]

\* C4, amended: the tables are transferred concurrently in no referential
\* order; when the transfer of the collected data completes, the
\* destination holds every row of need_transfer_pks of every table that has
\* a primary key, the referenced tables among them.
C4_ReferentsInsertedAtEnd ==
    transfer_pc \in {"transferred", "sequences", "done"} =>
        \A i \in TransferIds :
            has_primary_key[i] => Content(Now, i) \subseteq dst_rows[i]

\* C4 witness: the stage completed after both tables, the referenced one in
\* more than one chunk, were transferred.
C4_Witness ==
    /\ transfer_pc = "transferred"
    /\ \A i \in TransferIds : has_primary_key[i] /\ dst_rows[i] # {}
    /\ \E ref \in TransferRefs : LenOf(Now, ref[2]) > CHUNK_SIZE

AnyTransferFailed == \E j \in TransferIds : transfer_task[j].pc = "failed"

\* C11: once a chunk transfer of a table has raised, no other table goes on
\* to transfer a further chunk, and the sequence update is not run.
C11_FailureCancelsSiblings ==
    /\ [][AnyTransferFailed =>
            \A i \in TransferIds : transfer_task'[i].step = transfer_task[i].step]_vars
    /\ [](AnyTransferFailed => transfer_pc \notin {"sequences", "done"})

ShapeFailed(i) ==
    /\ transfer_task[i].pc = "failed"
    /\ transfer_task[i].error.cause \in ShapeErrors

\* C12: a chunk transfer that fails with one of the four data-shape errors
\* raises a PostgresError naming the table and the statement; the failing
\* chunk leaves transferred_pks_count as it was, and after it the table
\* transfers no further chunk and does not send the chunk again.
C12_ShapeErrorIsFatal ==
    /\ [](\A i \in TransferIds : ShapeFailed(i) =>
            /\ transfer_task[i].error.class = "PostgresError"
            /\ transfer_task[i].error.table = TransferTables[i]
            /\ transfer_task[i].error.sql = transfer_task[i].chunk
            /\ transfer_task[i].chunk # <<>>)
    /\ [][\A i \in TransferIds :
            /\ (transfer_task'[i].pc = "failed" /\ transfer_task[i].pc # "failed")
                  => transferred_pks_count'[i] = transferred_pks_count[i]
            /\ ShapeFailed(i) =>
                  /\ transfer_task'[i] = transfer_task[i]
                  /\ transferred_pks_count'[i] = transferred_pks_count[i]
                  /\ dst_rows'[i] = dst_rows[i]]_vars

\* C12 witness: a table's second chunk failed with a data-shape error after
\* its first chunk was counted, and the other table went on.
C12_Witness ==
    \E i \in TransferIds :
        /\ ShapeFailed(i)
        /\ transfer_task[i].sent = 2
        /\ transferred_pks_count[i] > 0
        /\ \E j \in TransferIds : j # i /\ transfer_task[j].pc = "done"

AfterTransfer == transfer_pc \in {"transferred", "sequences", "done"}

\* C13 as stated: after the transfer, transferred_pks_count of every table
\* is the number of its destination rows whose primary key is in
\* need_transfer_pks.
C13_CountIsDestinationRows ==
    AfterTransfer =>
        \A i \in TransferIds :
            transferred_pks_count[i] = Cardinality(dst_rows[i] \cap Content(Now, i))

\* C13, amended: after the transfer, transferred_pks_count of every table
\* is the number of its destination rows whose primary key is in
\* need_transfer_pks and that the transfer inserted; rows the destination
\* held before are not counted.
C13_CountIsInsertedRows ==
    AfterTransfer =>
        \A i \in TransferIds :
            transferred_pks_count[i] =
                Cardinality((dst_rows[i] \ dst_before[i]) \cap Content(Now, i))

\* C13 witness: the transfer is over, and a table transferred in two chunks
\* had one of the rows before.
C13_Witness ==
    /\ AfterTransfer
    /\ \E i \in TransferIds :
          /\ transfer_task[i].sent = 2
          /\ dst_before[i] \cap Content(Now, i) # {}
          /\ transferred_pks_count[i] = 2

\* C14: a transfer statement is sent only for a table that has a primary
\* key and a non-empty need_transfer_pks; a table without primary key gets
\* no statement and keeps transferred_pks_count 0, and the tables that have
\* one are transferred all the same.
C14_OnlyTablesWithPrimaryKey ==
    /\ \A i \in TransferIds :
          /\ transfer_task[i].pc = "chunk" \/ transfer_task[i].sent > 0
                => has_primary_key[i] /\ Content(Now, i) # {}
          /\ ~has_primary_key[i]
                => transfer_task[i].sent = 0 /\ transferred_pks_count[i] = 0
    /\ AfterTransfer =>
          \A i \in TransferIds :
              (has_primary_key[i] /\ Content(Now, i) # {}) =>
                  /\ transfer_task[i].pc = "done"
                  /\ transfer_task[i].sent * CHUNK_SIZE >= LenOf(Now, i)
                  /\ Content(Now, i) \subseteq dst_rows[i]

\* C14 witness: the transfer is over; a table with keys to transfer and no
\* primary key was skipped and the other was transferred in two chunks.
C14_Witness ==
    /\ AfterTransfer
    /\ \E i, j \in TransferIds :
          /\ ~has_primary_key[i]
          /\ Content(Now, i) # {}
          /\ transfer_task[i].pc = "skipped"
          /\ has_primary_key[j]
          /\ transfer_task[j].sent = 2

CarriesPrimaryKey(t, c) ==
    /\ \E k \in 1..Len(colAttr[<<t, c>>].constraint_type) :
          colAttr[<<t, c>>].constraint_type[k] = PRIMARY_KEY
    /\ colAttr[<<t, c>>].data_type # "date"

\* C16: the primary_key read of a table is a column that carries
\* PRIMARY_KEY and is not date-typed, no column before it in the order of
\* the columns mapping is such a column, and it is None exactly when the
\* table has no such column.
C16_PrimaryKeyIsFirstNonDate ==
    \A t \in pkRead :
        /\ pkVal[t] = None <=>
              ~ \E k \in 1..Len(columns[t]) : CarriesPrimaryKey(t, columns[t][k])
        /\ pkVal[t] # None =>
              \E k \in 1..Len(columns[t]) :
                  /\ columns[t][k] = pkVal[t]
                  /\ CarriesPrimaryKey(t, pkVal[t])
                  /\ \A j \in 1..(k - 1) : ~CarriesPrimaryKey(t, columns[t][j])

\* C16 witness: a table whose first column is a date-typed primary key and
\* that has two more primary key columns was read, and so was a table whose
\* only primary key is date-typed.
C16_Witness ==
    /\ {"a", "b"} \subseteq pkRead
    /\ Len(columns["a"]) = 3
    /\ columns["a"][1] = "id"
    /\ pkVal["a"] = columns["a"][2]
    /\ CarriesPrimaryKey("a", columns["a"][3])
    /\ columns["b"] = <<"id">>
    /\ pkVal["b"] = None

\* C17: if a required parameter is missing or empty, loading the settings
\* fails.
C17_MissingParameterIsFatal ==
    (/\ settings_state # "pending"
     /\ \E name \in RequiredParams : environ[name] \in {Unset, Blank})
        => settings_state = "ValueError"

\* The tables that some revert_foreign_tables entry involves, as referent or
\* as referring table
RevertTables ==
    {r \in TableNames : \E t \in TableNames : revert[r][t] # {}}
        \cup {t \in TableNames : \E r \in TableNames : revert[r][t] # {}}

\* C18: foreign key edges to excluded tables are dropped silently: after
\* introspection no column has an excluded table as constraint_table, no
\* revert_foreign_tables entry involves an excluded table, and the step that
\* takes a record with an excluded referent off the list raises nothing and
\* names no column in an error.
C18_ExcludedEdgesDropped ==
    /\ [](IntroDone =>
            /\ \A id \in ColIds : colAttr[id].constraint_table \notin EXCLUDED_TABLES
            /\ RevertTables \cap EXCLUDED_TABLES = {})
    /\ [][\A rec \in pending :
            (rec.constraint_table_name \in EXCLUDED_TABLES /\ rec \notin pending')
                => /\ introFailed' = introFailed
                   /\ wrong_fk' = wrong_fk
                   /\ revert' = revert]_vars

\* C18 witness: introspection completed without error, a FOREIGN KEY record
\* to the excluded table was left out, and the same column keeps the edge of
\* its other FOREIGN KEY record.
C18_Witness ==
    /\ IntroOk
    /\ \E rec \in dropped :
          /\ rec.constraint_type = FOREIGN_KEY
          /\ rec.constraint_table_name \in EXCLUDED_TABLES
          /\ rec.column_name \in Present(rec.table_name)
          /\ \E r \in TableNames : rec.column_name \in revert[r][rec.table_name]

\* A FOREIGN KEY record whose referent is neither a table of the model nor an
\* excluded table
UnknownReferent(rec) ==
    /\ rec.constraint_type = FOREIGN_KEY
    /\ rec.constraint_table_name \notin TableNames \cup EXCLUDED_TABLES

\* C19: the append_column call of a FOREIGN KEY record whose referent is not
\* in the model and not excluded raises the error that names the column, and
\* once an append_column has raised, prepare_tables never completes normally.
C19_UnknownReferentIsFatal ==
    /\ [][\A rec \in pending :
            (UnknownReferent(rec) /\ rec \notin pending')
                => /\ introFailed'
                   /\ <<rec.table_name, rec.column_name>> \in wrong_fk']_vars
    /\ [][introFailed => introFailed' /\ ~IntroOk']_vars

\* C19 witness: every record is processed, the record with the unknown
\* referent came after another record of its column, and the raised error
\* names that column.
C19_Witness ==
    /\ IntroDone
    /\ introFailed
    /\ \E id \in wrong_fk :
          /\ Len(colAttr[id].constraint_type) >= 2
          /\ colAttr[id].constraint_type[Len(colAttr[id].constraint_type)] = FOREIGN_KEY
          /\ colAttr[id].constraint_table = None

\* The tables the claim C20 names: TABLES_TRUNCATE_INCLUDED if it is not
\* empty, else table_names minus TABLES_WITH_GENERIC_FOREIGN_KEY; minus
\* TABLES_TRUNCATE_EXCLUDED
TablesToTruncate ==
    (IF TABLES_TRUNCATE_INCLUDED # <<>>
     THEN Range(TABLES_TRUNCATE_INCLUDED)
     ELSE Range(DstTableNames) \ Range(TABLES_WITH_GENERIC_FOREIGN_KEY))
        \ Range(TABLES_TRUNCATE_EXCLUDED)

\* C20: truncate_tables executes no TRUNCATE when IS_TRUNCATE_TABLES is
\* false; otherwise it never truncates a table outside TablesToTruncate and
\* has truncated exactly the tables of TablesToTruncate when it returns.
C20_TruncatesSelectedTables ==
    /\ ~IS_TRUNCATE_TABLES => truncated = <<>>
    /\ IS_TRUNCATE_TABLES => Range(truncated) \subseteq TablesToTruncate
    /\ (IS_TRUNCATE_TABLES /\ truncate_pc = "done")
            => Range(truncated) = TablesToTruncate

\* C20 witness: truncate_tables has returned after truncating by default
\* (no include list), with a generic foreign key table and an excluded table
\* of the model left alone and another table truncated.
C20_Witness ==
    /\ truncate_pc = "done"
    /\ IS_TRUNCATE_TABLES
    /\ TABLES_TRUNCATE_INCLUDED = <<>>
    /\ TABLES_WITH_GENERIC_FOREIGN_KEY = <<"g">>
    /\ "p" \in Range(TABLES_TRUNCATE_EXCLUDED)
    /\ truncated = <<"c">>

\* C21: after an introspection that completed without error,
\* revert_foreign_tables is the inverse of the foreign key edges: every
\* column C in R.revert_foreign_tables[T] is a foreign key column of T whose
\* constraint_table is R, so that a foreign key column is in the revert map
\* of exactly one table.
C21_RevertIsInverse ==
    IntroOk =>
        \A r \in TableNames : \A t \in TableNames : \A c \in revert[r][t] :
            /\ c \in Present(t)
            /\ is_foreign_key(<<t, c>>)
            /\ colAttr[<<t, c>>].constraint_table = r

\* C22: after an introspection that completed without error, a column whose
\* constraint_type has no FOREIGN_KEY has no constraint_table.
C22_NoForeignKeyNoConstraintTable ==
    IntroOk =>
        \A t \in TableNames : \A c \in Present(t) :
            FOREIGN_KEY \notin Range(colAttr[<<t, c>>].constraint_type)
                => colAttr[<<t, c>>].constraint_table = None

\* the callers that hold a connection, and those whose operation is over
Holding == {i \in CallerIds : caller[i].pc = "held"}
Over(i) == caller[i].pc \in {"returned", "raised"}

\* every connection is in the pool or held by a caller inside its
\* async with: an operation that is over, by return or exception, holds none
Released == pool_free = PoolSize - Cardinality(Holding)

\* C23: each SQL call acquires a pool connection, holds it for exactly one
\* statement and returns it, also when the statement fails: no operation
\* runs more than one statement on the connection it holds, and an operation
\* that returned has run one.
C23_OneStatementPerConnection ==
    /\ Released
    /\ \A i \in CallerIds :
          /\ caller[i].statements <= 1
          /\ caller[i].pc = "returned" => caller[i].statements = 1

\* C23 as the code has it: every operation gives its connection back, also
\* when a statement fails; execute_raw_sql, fetch_raw_sql,
\* _prepare_chunk_tables and _transfer_chunk_table_data hold it for one
\* statement; set_max_sequence holds one connection for its whole body: no
\* statement without primary key, the lookup of the serial sequence alone
\* without sequence, the lookup and setval otherwise.
C23_ConnectionHeldForOneBody ==
    /\ Released
    /\ \A i \in CallerIds :
          LET c == caller[i] IN
          /\ c.op \in OneStatementOps =>
                /\ c.statements <= 1
                /\ c.pc = "returned" => c.statements = 1
          /\ c.op = "set_max_sequence" =>
                /\ c.statements <= 2
                /\ c.pc = "returned" =>
                      c.statements = IF ~c.has_primary_key THEN 0
                                     ELSE IF ~c.serial_sequence THEN 1 ELSE 2
          /\ c.pc = "raised" => c.failed /\ c.statements >= 1

\* C23 witness: a transfer statement failed and a set_max_sequence ran its
\* two statements on one connection; both callers are over and the pool has
\* all its connections.
C23_Witness ==
    /\ pool_free = PoolSize
    /\ \E i \in CallerIds :
          /\ caller[i].op = "_transfer_chunk_table_data"
          /\ caller[i].pc = "raised"
    /\ \E i \in CallerIds :
          /\ caller[i].op = "set_max_sequence"
          /\ caller[i].pc = "returned"
          /\ caller[i].statements = 2

\* C24: right after delete() on a store of any of the three classes,
\* is_not_empty() returns false and len() returns 0, whatever is_not_empty()
\* had returned before.
C24_EmptyAfterDelete ==
    \A s \in StoreIds :
        LET after == DoDelete(Now, s) IN
        /\ ~IsNotEmptyOf(after, s)
        /\ LenOf(after, s) = 0

\* C25: after an introspection that completed without error,
\* highest_priority_fk_columns and
\* fk_columns_tables_with_fk_columns_with_key_column of every table list no
\* column twice and no self foreign key column.
C25_PriorityListsHaveNoDuplicates ==
    IntroOk =>
        \A t \in TableNames :
            \A list \in {highest_priority_fk_columns(t),
                         fk_columns_tables_with_fk_columns_with_key_column(t)} :
                /\ NoDuplicates(list)
                /\ \A c \in Range(list) : ~is_self_fk(<<t, c>>)

\* C26: after an introspection that completed without error every column
\* the query reported is in the columns of its table; append_column puts
\* the column of each record it gets there, so what is left to hold is that
\* the column of a record left out for its excluded referent is present too.
C26_ReportedColumnsPresent ==
    IntroOk =>
        \A rec \in dropped : rec.column_name \in Present(rec.table_name)

\* how often x is in seq
Occurrences(seq, x) == Cardinality({i \in 1..Len(seq) : seq[i] = x})

\* C27: a paged iteration of a scratch-table store during which elements
\* were inserted and none deleted yields no element of the store's content
\* at its start twice and, once it is over, has yielded each of them once.
C27_PagingStableUnderInserts ==
    (iter.store # 0 /\ IsTableStore(iter.store) /\ ~iter.shrunk) =>
        \A x \in iter.initial :
            /\ Occurrences(iter.yielded, x) <= 1
            /\ iter.state = "done" => Occurrences(iter.yielded, x) = 1

====
